---- MODULE Spec2Model ----
(***************************************************************************)
(* A model of xtrude/xtrude.py: the TerrainMap accessor (plot, the wait    *)
(* for the front-end's window URL, _start, the two tile handlers and the   *)
(* tile cache of get_tile) and the pure helpers (the elevation packing of  *)
(* terrain_handler with the decoder _start publishes, and coarsen).        *)
(*                                                                         *)
(* Conventions.                                                            *)
(*  - Python's None is the empty tuple, a present value v is <<v>>.        *)
(*  - Text is a sequence of tokens (a URL) or of characters (a path        *)
(*    segment); int() and the string slicing of the code act on them.      *)
(*  - Elevations are fixed-point numbers in hundredths of a unit           *)
(*    (1234.5 is 123450), so that the float arithmetic of the encoder and  *)
(*    the truncation of the uint8 store are exact integer arithmetic.      *)
(*  - A coroutine runs atomically between two awaits (asyncio, one event   *)
(*    loop): a handler without an await is one action.                     *)
(*  - `with self.debug_output:` is the context manager of an ipywidgets    *)
(*    Output: inside an IPython kernel its __exit__ shows the traceback in *)
(*    the widget and returns True, which swallows the exception; outside a *)
(*    kernel the exception propagates.  Both environments are modelled     *)
(*    (variable kernel).                                                   *)
(***************************************************************************)
EXTENDS Integers, Sequences, FiniteSets, TLC

VARIABLES
    kernel,       \* TRUE: an IPython kernel is present (Output swallows exceptions)
    raw_y,        \* y coordinates of the DataArray handed to the accessor (caller's object)
    da_y,         \* y coordinates of self.da
    y_lower,      \* self.y_lower, None before plot
    y_upper,      \* self.y_upper, None before plot
    plotResult,   \* what plot() gave its caller: "none" (not called), "layer", "raised", "swallowed"
    configured,   \* TRUE once lines 69-90 ran (vmin, vmax, surface_url, colormap, tiles, grid)
    colormap,     \* self.colormap
    surface_url,  \* self.surface_url
    vmin,         \* self.vmin
    vmax,         \* self.vmax
    sUrl,         \* self.s.window_url, the trait the front-end sets
    window_url,   \* self.window_url
    map_ready,    \* the trait map_ready
    pcWait,       \* position of async_wait_for_window_url
    future,       \* the Future of wait_for_change
    base_url,     \* self.base_url, None while unassigned
    host,         \* self.host, None while unassigned
    servers,      \* ports start_server was called for
    layer,        \* the layer's elevation_data / texture / decoder were assigned
    tiles,        \* self.tiles: key -> raster
    pending,      \* requests dispatched to a handler task, not yet run: kind -> count
    last,         \* the response to the request handled last
    calls,        \* key -> number of runs of the tile computation (call-counting stub)
    served,       \* key -> rasters get_tile returned to a handler
    pk_elev,      \* packing: the elevation (hundredths)
    pk_rgb,       \* packing: the pixel written, None before
    pk_dec,       \* packing: the decoded elevation (hundredths), None before
    co_in,        \* coarsen: the input array
    co_tw,        \* coarsen: tile_width
    co_raise,     \* coarsen: the library's block averaging raises
    co_out        \* coarsen: the result, None before

setupVars == <<kernel, raw_y, da_y, y_lower, y_upper, plotResult, configured, colormap,
               surface_url, vmin, vmax, sUrl, window_url, map_ready, pcWait, future,
               base_url, host, servers, layer>>
serveVars == <<tiles, pending, last, calls, served>>
packVars == <<pk_elev, pk_rgb, pk_dec>>
coarsenVars == <<co_in, co_tw, co_raise, co_out>>
vars == <<setupVars, serveVars, packVars, coarsenVars>>

None == <<>>
Some(v) == <<v>>

-----------------------------------------------------------------------------
(* Bounds of the model *)

\* pending requests at one time
MaxPending == 2
\* failed runs of the tile computation per key
MaxFail == 1
\* rows / columns of a window given to coarsen
MaxDim == 6
\* tile_width values given to coarsen: 1..MaxTw
MaxTw == 2
\* fractional steps (hundredths) tried above each sample elevation
MaxFrac == 12

(* Program constants *)
factor == 10
offset == 10000
TerrainPort == 8080
SurfacePort == 8081

\* hundredths per unit of the fixed-point elevations
Q == 100

-----------------------------------------------------------------------------
(* Sequences *)

Reverse(s) == [i \in 1..Len(s) |-> s[Len(s) + 1 - i]]

SeqMin(s) == CHOOSE m \in {s[i] : i \in 1..Len(s)} : \A i \in 1..Len(s) : m <= s[i]
SeqMax(s) == CHOOSE m \in {s[i] : i \in 1..Len(s)} : \A i \in 1..Len(s) : m >= s[i]

\* np.any(np.diff(y) >= 0)
AnyDiffNonNeg(y) == \E i \in 1..(Len(y) - 1) : y[i + 1] - y[i] >= 0

-----------------------------------------------------------------------------
(* Inputs *)

\* y axes of the source grid (strictly monotonic, as a rectangular grid's are)
YAxes == {<<10, 20, 30>>, <<30, 20, 10>>, <<10, 30>>}

ColormapArgs == {None, Some("viridis")}
SurfaceUrlArgs == {None, Some("https://tiles/{z}/{x}/{y}.png")}
\* (vmin, vmax) as given to plot, hundredths
RangeArgs == {<<None, None>>, <<Some(0), Some(200000)>>}

LabUrl == <<"http", ":", "//", "localhost", ":", "8888", "/lab">>
NotebookUrl == <<"http", ":", "//", "localhost", ":", "8888", "/notebooks/", "dem.ipynb">>
VoilaUrl == <<"http", ":", "//", "localhost", ":", "8888", "/voila/", "render/dem.ipynb">>
TreeUrl == <<"http", ":", "//", "localhost", ":", "8888", "/tree">>
WindowUrls == {LabUrl, NotebookUrl, VoilaUrl, TreeUrl}

-----------------------------------------------------------------------------
(* plot *)

\* Lines 74-87: the y axis is reversed when some consecutive difference is
\* >= 0, then the bounds are the minimum and maximum of the axis.
\* Mutant of NormalizeY: the flip is forgotten.
NormalizeYNever(y) == y
NormalizeY(y) == IF AnyDiffNonNeg(y) THEN Reverse(y) ELSE y

\* plot(colormap=cm, surface_url=su, vmin=rng[1], vmax=rng[2]).  The Spinner
\* is created and the wait for its window_url is scheduled (lines 56-58)
\* before the arguments are checked (line 64).  The ValueError is raised
\* inside `with self.debug_output:`: in a kernel the Output swallows it and
\* plot returns None.
Plot(cm, su, rng) ==
    /\ plotResult = "none"
    /\ sUrl' = None
    /\ window_url' = None
    /\ pcWait' = "scheduled"
    /\ IF cm # None /\ su # None
       THEN /\ plotResult' = IF kernel THEN "swallowed" ELSE "raised"
            /\ UNCHANGED <<configured, colormap, surface_url, vmin, vmax, tiles,
                           da_y, y_lower, y_upper>>
       ELSE /\ plotResult' = "layer"
            /\ configured' = TRUE
            /\ vmin' = rng[1]
            /\ vmax' = rng[2]
            /\ surface_url' = su
            /\ colormap' = cm
            /\ tiles' = [k \in {} |-> None]
            /\ da_y' = NormalizeY(da_y)
            /\ y_lower' = Some(SeqMin(da_y'))
            /\ y_upper' = Some(SeqMax(da_y'))
    /\ UNCHANGED <<kernel, raw_y, map_ready, future, base_url, host, servers, layer>>
    /\ UNCHANGED <<pending, last, calls, served>>
    /\ UNCHANGED <<packVars, coarsenVars>>

-----------------------------------------------------------------------------
(* _start *)

Last(s) == s[Len(s)]
Contains(s, t) == \E i \in 1..Len(s) : s[i] = t
\* str.rfind on tokens: the last position of t (0 when absent)
RFind(s, t) == IF Contains(s, t)
               THEN CHOOSE i \in 1..Len(s) : s[i] = t /\ \A j \in (i + 1)..Len(s) : s[j] # t
               ELSE 0
Prefix(s, n) == SubSeq(s, 1, n)

\* Lines 99-110: self.base_url after the three branches; it keeps its old
\* value (None: the attribute does not exist) when no branch matches.
BaseOfWindowUrl(url, old) ==
    IF Len(url) > 0 /\ Last(url) = "/lab"
    THEN Some(Prefix(url, Len(url) - 1))
    ELSE IF Contains(url, "/notebooks/")
         THEN Some(Prefix(url, RFind(url, "/notebooks/") - 1))
         ELSE IF Contains(url, "/voila/")
              THEN Some(Prefix(url, RFind(url, "/voila/") - 1))
              ELSE old

\* Lines 111-112: the port is cut off at the last ':'.
StripPort(b) == IF Contains(b, ":") THEN Prefix(b, RFind(b, ":") - 1) ELSE b

\* Line 113: base_url[7:], the seven characters of "http://" are three tokens.
HostOf(b) == SubSeq(b, 4, Len(b))

\* _start(), called by the observer of map_ready.  An AttributeError
\* (base_url unassigned at line 111, colormap unassigned at line 115) ends
\* the call where it is raised; what was done before it stays done.
Start(url) ==
    LET b == BaseOfWindowUrl(url, base_url) IN
    IF b = None
    THEN UNCHANGED <<base_url, host, servers, layer>>
    ELSE /\ base_url' = Some(StripPort(b[1]))
         /\ host' = Some(HostOf(StripPort(b[1])))
         /\ IF ~configured
            THEN /\ servers' = servers \cup {TerrainPort}
                 /\ UNCHANGED layer
            ELSE /\ servers' = IF colormap = None
                               THEN servers \cup {TerrainPort}
                               ELSE servers \cup {TerrainPort, SurfacePort}
                 /\ layer' = TRUE

-----------------------------------------------------------------------------
(* async_wait_for_window_url and wait_for_change *)

\* Line 194: `if not self.s.window_url` waits; a non-empty URL is known.
\* Mutant of UrlKnown: the coroutine never waits.
UrlKnownAlways(u) == TRUE
UrlKnown(u) == u # None

\* Lines 196-198, after the wait if any: window_url is read from the Spinner,
\* map_ready becomes True and its observer runs _start synchronously.
Proceed ==
    /\ window_url' = sUrl
    /\ map_ready' = TRUE
    /\ pcWait' = "done"
    /\ IF map_ready THEN UNCHANGED <<base_url, host, servers, layer>> ELSE Start(sUrl)

\* The coroutine's first run, up to its await or its end.
WaitStart ==
    /\ pcWait = "scheduled"
    /\ IF UrlKnown(sUrl)
       THEN Proceed /\ UNCHANGED future
       ELSE /\ future' = "pending"
            /\ pcWait' = "awaiting"
            /\ UNCHANGED <<window_url, map_ready, base_url, host, servers, layer>>
    /\ UNCHANGED <<kernel, raw_y, da_y, y_lower, y_upper, plotResult, configured,
                   colormap, surface_url, vmin, vmax, sUrl>>
    /\ UNCHANGED <<serveVars, packVars, coarsenVars>>

\* The coroutine resumes once the future of wait_for_change has its result.
WaitResume ==
    /\ pcWait = "awaiting"
    /\ future = "done"
    /\ Proceed
    /\ UNCHANGED <<kernel, raw_y, da_y, y_lower, y_upper, plotResult, configured,
                   colormap, surface_url, vmin, vmax, sUrl, future>>
    /\ UNCHANGED <<serveVars, packVars, coarsenVars>>

\* The front-end sets the Spinner's window_url; get_value (lines 234-236)
\* resolves the future when the coroutine is waiting on it.
Deliver(u) ==
    /\ pcWait # "none"
    /\ sUrl = None
    /\ sUrl' = u
    /\ future' = IF future = "pending" THEN "done" ELSE future
    /\ UNCHANGED <<kernel, raw_y, da_y, y_lower, y_upper, plotResult, configured,
                   colormap, surface_url, vmin, vmax, window_url, map_ready, pcWait,
                   base_url, host, servers, layer>>
    /\ UNCHANGED <<serveVars, packVars, coarsenVars>>

-----------------------------------------------------------------------------
(* Tile requests: GET /{z}/{x}/{y}.png *)

Png == <<".", "p", "n", "g">>
Path(zt, xt, yt) == [z |-> zt, x |-> xt, y |-> yt \o Png]

\* The paths requested: an address, a non-numeric x and a negative x.
Paths == {Path(<<"1">>, <<"0">>, <<"1">>), Path(<<"1">>, <<"a">>, <<"0">>),
          Path(<<"1">>, <<"-", "1">>, <<"0">>)}
NoPath == [z |-> << >>, x |-> << >>, y |-> << >>]

Digits == {"0", "1", "2", "3", "4", "5", "6", "7", "8", "9"}
DigitVal(c) == CHOOSE n \in 0..9 : <<"0", "1", "2", "3", "4", "5", "6", "7", "8", "9">>[n + 1] = c

RECURSIVE NatOf(_)
NatOf(t) == IF Len(t) = 0 THEN 0 ELSE 10 * NatOf(Prefix(t, Len(t) - 1)) + DigitVal(Last(t))

AllDigits(t) == Len(t) > 0 /\ \A i \in 1..Len(t) : t[i] \in Digits
Signed(t) == Len(t) > 0 /\ t[1] \in {"-", "+"}
\* int(t) succeeds: an optional sign, then digits
IsIntText(t) == IF Signed(t) THEN AllDigits(Tail(t)) ELSE AllDigits(t)
\* int(t)
IntOf(t) == IF Signed(t)
            THEN (IF t[1] = "-" THEN 0 - NatOf(Tail(t)) ELSE NatOf(Tail(t)))
            ELSE NatOf(t)

\* y[:-4]
DropPng(t) == Prefix(t, Len(t) - 4)

\* Lines 131-134 / 149-152: the three int() calls succeed
Parses(p) == IsIntText(p.z) /\ IsIntText(p.x) /\ IsIntText(DropPng(p.y))
\* key = (x, y, z), line 178
KeyOf(p) == <<IntOf(p.x), IntOf(DropPng(p.y)), IntOf(p.z)>>

Keys == {KeyOf(p) : p \in {q \in Paths : Parses(q)}}

-----------------------------------------------------------------------------
(* Elevation packing, lines 155-159, and the decoder of line 122 *)

\* (data + offset) * factor, in hundredths
Scaled(e) == (e + offset * Q) * factor

\* The store of a float into the uint8 array truncates it.
ToUint8(h) == (h \div Q) % 256

Blue(e) == ToUint8(Scaled(e) % (256 * Q))
Green(e) == (Scaled(e) \div (256 * Q)) % 256
Red(e) == (Scaled(e) \div (256 * 256 * Q)) % 256

\* Mutant of Pack: the channels stored in the opposite order.
PackSwapped(e) == <<Blue(e), Green(e), Red(e)>>
\* rgb[:, :, 0..2]
Pack(e) == <<Red(e), Green(e), Blue(e)>>

\* elevation_decoder: r * rScaler + g * gScaler + b * bScaler + offset, with
\* rScaler = 65536 / factor, gScaler = 256 / factor, bScaler = 1 / factor and
\* offset = -self.offset; in hundredths.
Decode(rgb) == (rgb[1] * 65536 * Q) \div factor + (rgb[2] * 256 * Q) \div factor
               + (rgb[3] * Q) \div factor - offset * Q

-----------------------------------------------------------------------------
(* The tile cache: get_tile *)

\* A sample of the source grid's data at a tile, hundredths (500 and 1234.57).
Elevation(key) == IF key = <<0, 1, 1>> THEN 50000 ELSE 123457
\* self.da.min() and self.da.max()
DaMin == CHOOSE m \in {Elevation(k) : k \in Keys} : \A k \in Keys : m <= Elevation(k)
DaMax == CHOOSE m \in {Elevation(k) : k \in Keys} : \A k \in Keys : m >= Elevation(k)

\* The array the n-th run of extract -> coarsen -> reproject returns for a
\* key: reproject returns a new array (destination.values) at every call.
Raster(key, n) == [key |-> key, id |-> n, elev |-> Elevation(key)]

Store(t, key, r) == [k \in DOMAIN t \cup {key} |-> IF k = key THEN r ELSE t[k]]

\* get_tile(x, y, z) with the outcome of the computation (fails: it raises).
\* The result: the cache, what the caller gets (None when the Output
\* swallowed an exception and the function fell off its end), whether an
\* exception propagates, whether the computation ran.
\* Mutant of GetTile: the test `key not in self.tiles` is missing.
GetTileNoCheck(key, fails) ==
    IF ~configured
    THEN [tiles |-> tiles, data |-> None, exc |-> ~kernel, ran |-> FALSE]
    ELSE IF fails
         THEN [tiles |-> tiles, data |-> None, exc |-> ~kernel, ran |-> TRUE]
         ELSE LET r == Raster(key, calls[key] + 1) IN
              [tiles |-> Store(tiles, key, r), data |-> Some(r), exc |-> FALSE, ran |-> TRUE]

\* Mutant of GetTile: storing a tile drops the others (a one-entry cache).
GetTileEvict(key, fails) ==
    IF ~configured
    THEN [tiles |-> tiles, data |-> None, exc |-> ~kernel, ran |-> FALSE]
    ELSE IF key \in DOMAIN tiles
         THEN [tiles |-> tiles, data |-> Some(tiles[key]), exc |-> FALSE, ran |-> FALSE]
         ELSE IF fails
              THEN [tiles |-> tiles, data |-> None, exc |-> ~kernel, ran |-> TRUE]
              ELSE LET r == Raster(key, calls[key] + 1) IN
                   [tiles |-> [k \in {key} |-> r], data |-> Some(r), exc |-> FALSE,
                    ran |-> TRUE]

\* Mutant of GetTile: the computing call returns another array than it stored.
GetTileCopy(key, fails) ==
    IF ~configured
    THEN [tiles |-> tiles, data |-> None, exc |-> ~kernel, ran |-> FALSE]
    ELSE IF key \in DOMAIN tiles
         THEN [tiles |-> tiles, data |-> Some(tiles[key]), exc |-> FALSE, ran |-> FALSE]
         ELSE IF fails
              THEN [tiles |-> tiles, data |-> None, exc |-> ~kernel, ran |-> TRUE]
              ELSE [tiles |-> Store(tiles, key, Raster(key, calls[key] + 1)),
                    data |-> Some(Raster(key, calls[key] + 2)), exc |-> FALSE, ran |-> TRUE]

GetTile(key, fails) ==
    IF ~configured
    THEN \* self.tiles does not exist: AttributeError
         [tiles |-> tiles, data |-> None, exc |-> ~kernel, ran |-> FALSE]
    ELSE IF key \in DOMAIN tiles
         THEN [tiles |-> tiles, data |-> Some(tiles[key]), exc |-> FALSE, ran |-> FALSE]
         ELSE IF fails
              THEN [tiles |-> tiles, data |-> None, exc |-> ~kernel, ran |-> TRUE]
              ELSE LET r == Raster(key, calls[key] + 1) IN
                   [tiles |-> Store(tiles, key, r), data |-> Some(r), exc |-> FALSE,
                    ran |-> TRUE]

-----------------------------------------------------------------------------
(* The handlers *)

Endpoints == {TerrainPort, SurfacePort}
\* A dispatched request; miss records that its address parsed and was not in
\* the cache when the request was dispatched.
ReqKinds == [ep : Endpoints, path : Paths, miss : BOOLEAN]
NoResponse == [ep |-> 0, path |-> NoPath, status |-> 0, data |-> None, body |-> None,
               ran |-> FALSE, miss |-> FALSE]
NPending == LET RECURSIVE Sum(_)
                Sum(S) == IF S = {} THEN 0
                          ELSE LET k == CHOOSE k \in S : TRUE IN pending[k] + Sum(S \ {k})
            IN Sum(ReqKinds)

\* An exception raised inside the handler's `with self.debug_output:`: in a
\* kernel the Output swallows it and the coroutine returns None, otherwise it
\* reaches aiohttp.
HandlerError == IF kernel THEN "noresult" ELSE "raised"

\* What the client gets.  aiohttp answers an exception of a handler with 500;
\* a handler that returned None makes it answer 500 or, in the versions that
\* raise "Missing return statement on request handler", close the connection
\* without a response (status 0).
StatusOf(outcome, drop) ==
    IF outcome = "ok" THEN 200
    ELSE IF outcome = "raised" THEN 500
    ELSE IF drop THEN 0 ELSE 500

\* terrain_handler, lines 147-163
TerrainResult(p, fails) ==
    IF ~Parses(p)
    THEN [tiles |-> tiles, data |-> None, ran |-> FALSE, outcome |-> HandlerError,
          body |-> None, vmin |-> vmin, vmax |-> vmax]
    ELSE LET g == GetTile(KeyOf(p), fails) IN
         IF g.exc \/ g.data = None
         THEN \* the exception of get_tile, or (None + self.offset): TypeError
              [tiles |-> g.tiles, data |-> g.data, ran |-> g.ran, outcome |-> HandlerError,
               body |-> None, vmin |-> vmin, vmax |-> vmax]
         ELSE [tiles |-> g.tiles, data |-> g.data, ran |-> g.ran, outcome |-> "ok",
               body |-> Some(Pack(g.data[1].elev)), vmin |-> vmin, vmax |-> vmax]

\* surface_handler, lines 129-145: vmin and vmax are derived from the grid
\* before get_tile is called; the colormap is applied to the normalised data
\* (kept as the fraction numerator, denominator).
SurfaceResult(p, fails) ==
    IF ~Parses(p)
    THEN [tiles |-> tiles, data |-> None, ran |-> FALSE, outcome |-> HandlerError,
          body |-> None, vmin |-> vmin, vmax |-> vmax]
    ELSE LET lo == IF vmin = None THEN Some(DaMin) ELSE vmin
             hi == IF vmax = None THEN Some(DaMax) ELSE vmax
             g == GetTile(KeyOf(p), fails)
         IN  IF g.exc \/ g.data = None
             THEN [tiles |-> g.tiles, data |-> g.data, ran |-> g.ran,
                   outcome |-> HandlerError, body |-> None, vmin |-> lo, vmax |-> hi]
             ELSE [tiles |-> g.tiles, data |-> g.data, ran |-> g.ran, outcome |-> "ok",
                   body |-> Some(<<g.data[1].elev - lo[1], hi[1] - lo[1]>>),
                   vmin |-> lo, vmax |-> hi]

\* The computation would run for this request.
WouldCompute(p) == Parses(p) /\ configured /\ KeyOf(p) \notin DOMAIN tiles

\* A client's request reaches a started listener: a handler task is created.
Dispatch(ep, p) ==
    /\ ep \in servers
    /\ NPending < MaxPending
    /\ pending' = [pending EXCEPT ![[ep |-> ep, path |-> p, miss |-> WouldCompute(p)]] = @ + 1]
    /\ UNCHANGED <<tiles, last, calls, served>>
    /\ UNCHANGED <<setupVars, packVars, coarsenVars>>

\* The event loop runs the handler task of request k to its end.
Respond(k, r, drop) ==
    /\ pending' = [pending EXCEPT ![k] = @ - 1]
    /\ tiles' = r.tiles
    /\ vmin' = r.vmin
    /\ vmax' = r.vmax
    /\ calls' = IF r.ran THEN [calls EXCEPT ![KeyOf(k.path)] = @ + 1] ELSE calls
    /\ served' = IF r.data # None
                 THEN [served EXCEPT ![KeyOf(k.path)] = @ \cup {r.data[1]}]
                 ELSE served
    /\ last' = [ep |-> k.ep, path |-> k.path, status |-> StatusOf(r.outcome, drop),
                data |-> r.data, body |-> r.body, ran |-> r.ran, miss |-> k.miss]
    /\ UNCHANGED <<kernel, raw_y, da_y, y_lower, y_upper, plotResult, configured,
                   colormap, surface_url, sUrl, window_url, map_ready, pcWait, future,
                   base_url, host, servers, layer>>
    /\ UNCHANGED <<packVars, coarsenVars>>

\* The inputs of a run: the computation may raise only where it runs (at most
\* MaxFail times per key), the connection may be dropped only for a handler
\* that returned None.
Allowed(p, fails, outcome, drop) ==
    /\ fails => WouldCompute(p) /\ calls[KeyOf(p)] < MaxFail
    /\ drop => outcome = "noresult"

TerrainHandler(k, fails, drop) ==
    /\ k.ep = TerrainPort
    /\ pending[k] > 0
    /\ Allowed(k.path, fails, TerrainResult(k.path, fails).outcome, drop)
    /\ Respond(k, TerrainResult(k.path, fails), drop)

SurfaceHandler(k, fails, drop) ==
    /\ k.ep = SurfacePort
    /\ pending[k] > 0
    /\ Allowed(k.path, fails, SurfaceResult(k.path, fails).outcome, drop)
    /\ Respond(k, SurfaceResult(k.path, fails), drop)

-----------------------------------------------------------------------------
(* The specification of the accessor and its servers *)

IdlePack == pk_elev = 0 /\ pk_rgb = None /\ pk_dec = None
IdleCoarsen == co_in = << >> /\ co_tw = 0 /\ co_raise = FALSE /\ co_out = None
IdleServe ==
    /\ tiles = [k \in {} |-> None]
    /\ pending = [k \in ReqKinds |-> 0]
    /\ last = NoResponse
    /\ calls = [k \in Keys |-> 0]
    /\ served = [k \in Keys |-> {}]
IdleSetup(y) ==
    /\ raw_y = y /\ da_y = y /\ y_lower = None /\ y_upper = None
    /\ plotResult = "none" /\ configured = FALSE
    /\ colormap = None /\ surface_url = None /\ vmin = None /\ vmax = None
    /\ sUrl = None /\ window_url = None /\ map_ready = FALSE
    /\ pcWait = "none" /\ future = "none"
    /\ base_url = None /\ host = None /\ servers = {} /\ layer = FALSE

\* The accessor as constructed on a grid (__init__, line 32), before plot().
Init ==
    /\ kernel \in BOOLEAN
    /\ IdleSetup(<<10, 20, 30>>)
    /\ IdleServe /\ IdlePack /\ IdleCoarsen

Next ==
    \/ \E cm \in ColormapArgs, su \in SurfaceUrlArgs : Plot(cm, su, <<None, None>>)
    \/ Deliver(LabUrl)
    \/ WaitStart
    \/ WaitResume
    \/ \E ep \in Endpoints, p \in Paths : Dispatch(ep, p)
    \/ \E k \in ReqKinds, fails \in BOOLEAN, drop \in BOOLEAN : TerrainHandler(k, fails, drop)
    \/ \E k \in ReqKinds, fails \in BOOLEAN, drop \in BOOLEAN : SurfaceHandler(k, fails, drop)

Spec == Init /\ [][Next]_vars

\* Setting up, over every grid axis, range and window URL; no requests.
InitSetup ==
    /\ kernel \in BOOLEAN
    /\ \E y \in YAxes : IdleSetup(y)
    /\ IdleServe /\ IdlePack /\ IdleCoarsen

NextSetup ==
    \/ \E cm \in ColormapArgs, su \in SurfaceUrlArgs, rng \in RangeArgs : Plot(cm, su, rng)
    \/ \E u \in WindowUrls : Deliver(u)
    \/ WaitStart
    \/ WaitResume

SpecSetup == InitSetup /\ [][NextSetup]_vars

-----------------------------------------------------------------------------
(* The elevation packing as a pure function *)

\* Elevations (hundredths) whose scaled value v lies in [0, 256^3): from the
\* least one, around the carries into the green and red channels, 0, 1234.5,
\* 8848 and up to the greatest.
PackBases == {0 - offset * Q, -997445, -344645, 0, 123450, 884800, 166772147}
InRange(e) == 0 <= Scaled(e) /\ Scaled(e) < 256 * 256 * 256 * Q
PackSamples == {e \in {b + f : b \in PackBases, f \in 0..MaxFrac} : InRange(e)}

\* One pixel through lines 155-159.
EncodePixel ==
    /\ pk_rgb = None
    /\ pk_rgb' = Some(Pack(pk_elev))
    /\ UNCHANGED <<pk_elev, pk_dec>>
    /\ UNCHANGED <<setupVars, serveVars, coarsenVars>>

\* The client decodes the pixel with the published decoder.
DecodePixel ==
    /\ pk_rgb # None
    /\ pk_dec = None
    /\ pk_dec' = Some(Decode(pk_rgb[1]))
    /\ UNCHANGED <<pk_elev, pk_rgb>>
    /\ UNCHANGED <<setupVars, serveVars, coarsenVars>>

InitPack ==
    /\ kernel = TRUE /\ IdleSetup(<<10, 20, 30>>) /\ IdleServe /\ IdleCoarsen
    /\ pk_elev \in PackSamples /\ pk_rgb = None /\ pk_dec = None

NextPack == EncodePixel \/ DecodePixel

SpecPack == InitPack /\ [][NextPack]_vars

-----------------------------------------------------------------------------
(* coarsen, lines 201-217 *)

\* An array of ny rows and nx columns; a cell is the fraction <<sum, count>>.
Array(ny, nx) == [r \in 1..ny |-> [c \in 1..nx |-> <<10 * r + c, 1>>]]

RECURSIVE SumOver(_, _, _)
SumOver(a, cells, i) ==
    IF cells = {} THEN 0
    ELSE LET rc == CHOOSE rc \in cells : TRUE
         IN a[rc[1]][rc[2]][i] + SumOver(a, cells \ {rc}, i)

CeilDiv(n, w) == (n + w - 1) \div w

\* array.coarsen(x=bx, y=by, boundary='pad').mean(): blocks of by rows and bx
\* columns, the last block of an axis padded, the mean taken over the cells
\* that exist.
BlockMean(a, bx, by) ==
    LET ny == Len(a)
        nx == Len(a[1])
        Block(r, c) == {rc \in (((r - 1) * by + 1)..(r * by)) \X (((c - 1) * bx + 1)..(c * bx)) :
                          rc[1] <= ny /\ rc[2] <= nx}
    IN  [r \in 1..CeilDiv(ny, by) |->
           [c \in 1..CeilDiv(nx, bx) |->
              <<SumOver(a, Block(r, c), 1), SumOver(a, Block(r, c), 2)>>]]

\* Mutant of Coarsen: the factor is n // tile_width.
CoarsenNoDouble(a, tw, raises) ==
    LET wx == Len(a[1]) \div tw
        wy == Len(a) \div tw
    IN  IF raises THEN a
        ELSE BlockMean(a, IF wx > 1 THEN wx ELSE 1, IF wy > 1 THEN wy ELSE 1)

\* coarsen(array, tile_width); raises: the library call raises, which the
\* bare except swallows.  An axis absent from dim is not averaged.
Coarsen(a, tw, raises) ==
    LET wx == Len(a[1]) \div (tw * 2)
        wy == Len(a) \div (tw * 2)
    IN  IF raises THEN a
        ELSE BlockMean(a, IF wx > 1 THEN wx ELSE 1, IF wy > 1 THEN wy ELSE 1)

CoarsenCall ==
    /\ co_out = None
    /\ co_out' = Some(Coarsen(co_in, co_tw, co_raise))
    /\ UNCHANGED <<co_in, co_tw, co_raise>>
    /\ UNCHANGED <<setupVars, serveVars, packVars>>

InitCoarsen ==
    /\ kernel = TRUE /\ IdleSetup(<<10, 20, 30>>) /\ IdleServe /\ IdlePack
    /\ \E ny \in 1..MaxDim, nx \in 1..MaxDim : co_in = Array(ny, nx)
    /\ co_tw \in 1..MaxTw
    /\ co_raise \in BOOLEAN
    /\ co_out = None

NextCoarsen == CoarsenCall

SpecCoarsen == InitCoarsen /\ [][NextCoarsen]_vars

-----------------------------------------------------------------------------
(* Properties *)

Answered == last.ep # 0
LastKey == KeyOf(last.path)
ConfigError == plotResult \in {"raised", "swallowed"}
StrictlyDescending(y) == \A i \in 1..(Len(y) - 1) : y[i] > y[i + 1]
Elements(y) == {y[i] : i \in 1..Len(y)}
Abs(n) == IF n < 0 THEN 0 - n ELSE n
\* A path with a segment that is not a parseable non-negative integer.
Malformed(p) == ~Parses(p) \/ IntOf(p.z) < 0 \/ IntOf(p.x) < 0 \/ IntOf(DropPng(p.y)) < 0

\* C1, as stated: the tile computation runs at most once per address.
C1_AtMostOncePerAddress == \A k \in Keys : calls[k] <= 1

\* C1, amended: the computation runs only for an address that is not in the
\* cache; the run that stores an address is counted once and hands back the
\* raster it stored; once an address is stored no step runs the computation
\* for it again and every raster handed to a handler for it, on either
\* endpoint, is the stored one.
C1_NoRunOnceStored ==
    [][\A k \in Keys :
         /\ k \in DOMAIN tiles =>
              /\ calls'[k] = calls[k]
              /\ served'[k] \subseteq {tiles[k]}
         /\ (k \notin DOMAIN tiles /\ k \in DOMAIN tiles') =>
              /\ calls'[k] = calls[k] + 1
              /\ served'[k] = {tiles'[k]}
         /\ calls'[k] # calls[k] => k \notin DOMAIN tiles]_vars

\* C1, witness: a request answered from the cache, on the surface endpoint,
\* with the stored raster, after one failed and one successful run.
C1_Witness ==
    /\ Answered /\ last.ep = SurfacePort /\ last.status = 200 /\ ~last.ran
    /\ LastKey \in DOMAIN tiles /\ last.data = Some(tiles[LastKey])
    /\ calls[LastKey] = 2

\* C2: a cache entry is never updated and never removed: every step keeps
\* every cached address with the raster stored for it.
C2_EntriesKept ==
    [][\A k \in DOMAIN tiles : k \in DOMAIN tiles' /\ tiles'[k] = tiles[k]]_vars

\* C2, witness: both addresses are cached and a later request was answered
\* from the cache by the elevation endpoint.
C2_Witness ==
    /\ configured /\ DOMAIN tiles = Keys /\ Cardinality(Keys) > 1
    /\ Answered /\ last.ep = TerrainPort /\ last.status = 200 /\ ~last.ran

\* C3, as stated: after plot() was called with both colormap and surface_url
\* no listener is ever started and no tile request is answered.
C3_NoListenerAfterConfigError == ConfigError => servers = {} /\ ~Answered

\* C4, as stated: a request with a malformed segment (not a parseable
\* non-negative integer) is answered 4xx and leaves the cache alone.
C4_MalformedIsClientError ==
    (Answered /\ Malformed(last.path)) =>
        /\ last.status \in 400..499
        /\ ~last.ran
        /\ \A k \in DOMAIN tiles : k[1] >= 0 /\ k[2] >= 0 /\ k[3] >= 0

\* C5, as stated: a request whose tile computation raised gets a server error
\* response and nothing is stored for its address.
C5_ComputeErrorIsServerError ==
    (Answered /\ last.ran /\ last.data = None) =>
        /\ last.status \in 500..599
        /\ LastKey \notin DOMAIN tiles

\* C6: whatever the interleaving of the requests for an address, every raster
\* handed to a handler for that address is the one stored in the cache, and
\* nothing is handed out for an address that is not stored.
C6_ConsistentCachedValue ==
    /\ \A k \in Keys : served[k] \subseteq (IF k \in DOMAIN tiles THEN {tiles[k]} ELSE {})
    /\ (Answered /\ last.status = 200) => LastKey \in DOMAIN tiles /\ last.data = Some(tiles[LastKey])

\* C6, witness: a request dispatched while its address was not cached was
\* answered from the cache: a concurrent request had stored the address.
C6_Witness ==
    /\ Answered /\ last.miss /\ ~last.ran /\ last.status = 200
    /\ last.data = Some(tiles[LastKey])

\* C7: for 0 <= v < 256^3 the pixel holds the base-256 digits of floor(v) and
\* decodes to a value within 1/factor of the elevation (never above it).
C7_PackRoundTrip ==
    /\ pk_rgb # None =>
         LET fv == Scaled(pk_elev) \div Q IN
         pk_rgb[1] = <<(fv \div 65536) % 256, (fv \div 256) % 256, fv % 256>>
    /\ pk_dec # None =>
         /\ pk_dec[1] <= pk_elev
         /\ pk_elev - pk_dec[1] < Q \div factor
    /\ (pk_dec # None /\ pk_elev = 123450) => Abs(pk_dec[1] - 123450) <= 10

\* C7, witness: 1234.5 was packed as (1, 182, 217) and decoded.
C7_Witness == pk_elev = 123450 /\ pk_rgb = Some(<<1, 182, 217>>) /\ pk_dec = Some(123450)

\* C8: map_ready is set and a listener is started only when the Spinner's
\* window_url is known, and self.window_url is that URL.
C8_ServeAfterWindowUrl ==
    (map_ready \/ servers # {}) => sUrl # None /\ window_url = sUrl

\* C8, witness: the URL came as a change notification and the elevation
\* listener was started.
C8_Witness == future = "done" /\ TerrainPort \in servers /\ pcWait = "done"

\* C9: after plot() the y axis is strictly descending with the grid's
\* values; an ascending axis was reversed ([10,20,30] reads [30,20,10]), a
\* descending one kept; y_lower and y_upper are the least and greatest value.
C9_OrientationNormalized ==
    plotResult = "layer" =>
        /\ StrictlyDescending(da_y)
        /\ Elements(da_y) = Elements(raw_y) /\ Len(da_y) = Len(raw_y)
        /\ StrictlyDescending(raw_y) => da_y = raw_y
        /\ raw_y = <<10, 20, 30>> => da_y = <<30, 20, 10>>
        /\ y_lower # None /\ y_lower[1] \in Elements(raw_y)
        /\ \A v \in Elements(raw_y) : y_lower[1] <= v
        /\ y_upper # None /\ y_upper[1] \in Elements(raw_y)
        /\ \A v \in Elements(raw_y) : y_upper[1] >= v

\* C9, witness: the ascending grid [10,20,30] after plot().
C9_Witness ==
    /\ plotResult = "layer" /\ raw_y = <<10, 20, 30>> /\ da_y = <<30, 20, 10>>
    /\ y_lower = Some(10) /\ y_upper = Some(30)

\* C10: a window of at most 2 * tile_width rows and columns comes back with
\* the same shape and values; the length of an axis changes only when that
\* axis's factor n // (2 * tile_width) is greater than 1.
C10_CoarsenNoOp ==
    co_out # None =>
        LET ny == Len(co_in)
            nx == Len(co_in[1])
            out == co_out[1]
        IN  /\ (nx <= 2 * co_tw /\ ny <= 2 * co_tw) => out = co_in
            /\ Len(out[1]) # nx => nx \div (2 * co_tw) > 1
            /\ Len(out) # ny => ny \div (2 * co_tw) > 1
            /\ (nx \div (2 * co_tw) <= 1 /\ ny \div (2 * co_tw) <= 1) => out = co_in

\* C10, witness: a window of exactly 2 * tile_width by 2 * tile_width went
\* through the block averaging (no exception) and came back unchanged.
C10_Witness ==
    /\ co_out # None /\ ~co_raise /\ co_tw = 2
    /\ Len(co_in) = 4 /\ Len(co_in[1]) = 4 /\ co_out[1] = co_in

====
